---- MODULE Spec2Model ----
(***************************************************************************)
(* Model of reconciler.py: the numeric normaliser normalise_numeric and    *)
(* the greedy one-to-one matching of reconcile.                            *)
(*                                                                         *)
(* Texts are sequences of one-character strings.  A float is the exact     *)
(* decimal it was parsed from, kept in canonical form [ok, mant, exp]      *)
(* (value = mant / 10^exp, mant without trailing decimal zeros), so that    *)
(* equality of two records is equality of the two numbers; the texts of    *)
(* the model are short enough for a double to tell them apart exactly as   *)
(* the decimals do.  None / NaN / NaT are the records with ok = FALSE.     *)
(***************************************************************************)
EXTENDS Integers, Sequences, FiniteSets, TLC

VARIABLES
    pc,           \* position in reconcile ("start","loop","done") or in the
                  \* normaliser call ("call","return")
    df_fatura,    \* input table A: sequence of raw rows [date, value]
    df_mobills,   \* input table B
    f, m,         \* the copies with the derived columns _date and _value
    f_valid, m_valid,   \* rows left by dropna, with idx and _matched
    rows,         \* the rows iterrows() walks (taken when the loop starts)
    i,            \* position of the loop in rows
    unmatched_f, unmatched_m, total_f, total_m, difference,   \* the results
    value,        \* argument of a direct call of normalise_numeric
    result        \* what that call returned

vars == <<pc, df_fatura, df_mobills, f, m, f_valid, m_valid, rows, i,
          unmatched_f, unmatched_m, total_f, total_m, difference, value, result>>

\* ------------------------------------------------------------------ bounds
MaxA == 3      \* rows of table A
MaxB == 2      \* rows of table B
MaxLen == 4    \* length of the texts given to normalise_numeric directly

\* ----------------------------------------------------------------- numbers
None == [ok |-> FALSE, mant |-> 0, exp |-> 0]

RECURSIVE Pow10(_)
Pow10(n) == IF n = 0 THEN 1 ELSE 10 * Pow10(n - 1)

RECURSIVE Canon(_, _)
Canon(mant, exp) ==
    IF exp > 0 /\ mant % 10 = 0 THEN Canon(mant \div 10, exp - 1)
    ELSE [ok |-> TRUE, mant |-> mant, exp |-> exp]

Zero == Canon(0, 0)

Max(a, b) == IF a >= b THEN a ELSE b

Add(x, y) ==
    LET e == Max(x.exp, y.exp)
    IN Canon(x.mant * Pow10(e - x.exp) + y.mant * Pow10(e - y.exp), e)

Sub(x, y) == Add(x, [y EXCEPT !.mant = 0 - y.mant])

\* ------------------------------------------------------- normalise_numeric
Whitespace == {" "}

Digits == <<"0", "1", "2", "3", "4", "5", "6", "7", "8", "9">>

IsDigit(c) == \E k \in 1..10 : Digits[k] = c

DigitVal(c) == (CHOOSE k \in 1..10 : Digits[k] = c) - 1

\* a value of a cell: None, NaN, a Python int or a str
NoneValue == [kind |-> "none", text |-> <<>>, num |-> 0]
NaNValue == [kind |-> "nan", text |-> <<>>, num |-> 0]
StrValue(t) == [kind |-> "str", text |-> t, num |-> 0]
IntValue(n) == [kind |-> "int", text |-> <<>>, num |-> n]

RECURSIVE NatToText(_)
NatToText(n) ==
    IF n < 10 THEN <<Digits[n + 1]>>
    ELSE Append(NatToText(n \div 10), Digits[(n % 10) + 1])

\* str(value)
str(v) ==
    IF v.kind = "int"
    THEN (IF v.num < 0 THEN <<"-">> \o NatToText(0 - v.num) ELSE NatToText(v.num))
    ELSE v.text

RECURSIVE lstrip(_)
lstrip(s) == IF s # <<>> /\ s[1] \in Whitespace THEN lstrip(Tail(s)) ELSE s

RECURSIVE rstrip(_)
rstrip(s) ==
    IF s # <<>> /\ s[Len(s)] \in Whitespace
    THEN rstrip(SubSeq(s, 1, Len(s) - 1)) ELSE s

strip(s) == rstrip(lstrip(s))

\* re.sub(r"[Rr\$\s]", "", s)
re_sub(s) == SelectSeq(s, LAMBDA c : c \notin ({"R", "r", "$"} \cup Whitespace))

count(s, c) == Cardinality({k \in 1..Len(s) : s[k] = c})

\* s.replace(old, new) for a one-character old
RECURSIVE replace(_, _, _)
replace(s, old, new) ==
    IF s = <<>> THEN <<>>
    ELSE (IF s[1] = old THEN new ELSE <<s[1]>>) \o replace(Tail(s), old, new)

\* the two rewriting statements of normalise_numeric, one after the other
CommaRuleSwapped(s) ==
    LET s1 == IF count(s, ",") >= 1 /\ count(s, ",") = 1
              THEN replace(replace(s, ",", <<".">>), ".", <<>>) ELSE s
    IN IF count(s1, ",") > 1 THEN replace(s1, ",", <<>>) ELSE s1

CommaRule(s) ==
    LET s1 == IF count(s, ",") >= 1 /\ count(s, ",") = 1
              THEN replace(replace(s, ".", <<>>), ",", <<".">>) ELSE s
    IN IF count(s1, ",") > 1 THEN replace(s1, ",", <<>>) ELSE s1

RECURSIVE DigitsVal(_)
DigitsVal(s) ==
    IF s = <<>> THEN 0
    ELSE 10 * DigitsVal(SubSeq(s, 1, Len(s) - 1)) + DigitVal(s[Len(s)])

AllDigits(s) == \A k \in 1..Len(s) : IsDigit(s[k])

\* float(s) on texts without exponent, underscore, "inf" or "nan":
\* [-] digits [. [digits]]  |  [-] . digits ; anything else raises ValueError
float(s) ==
    LET neg == s # <<>> /\ s[1] = "-"
        body == IF neg THEN Tail(s) ELSE s
        dots == {k \in 1..Len(body) : body[k] = "."}
        dot == IF dots = {} THEN Len(body) + 1 ELSE CHOOSE k \in dots : TRUE
        ip == SubSeq(body, 1, dot - 1)
        fp == SubSeq(body, dot + 1, Len(body))
        good == /\ Cardinality(dots) <= 1
                /\ AllDigits(ip) /\ AllDigits(fp)
                /\ Len(ip) + Len(fp) > 0
        mag == DigitsVal(ip \o fp)
    IN IF good THEN Canon(IF neg THEN 0 - mag ELSE mag, Len(fp)) ELSE None

normalise_numeric(v) ==
    IF v.kind \in {"none", "nan"} THEN None
    ELSE float(CommaRule(re_sub(strip(str(v)))))

\* ------------------------------------------------------------ to_datetime
NaT == [ok |-> FALSE, month |-> 0, day |-> 0, hour |-> 0]

\* A raw date is the tuple of the numeric fields of its text: <<a, b>> for
\* "a/b/2024", <<a, b, h>> for "a/b/2024 h:00", <<>> for a text that is no
\* date.  dayfirst=True: the first field is the day.
to_datetime(d) ==
    IF Len(d) < 2 THEN NaT
    ELSE [ok |-> TRUE, month |-> d[2], day |-> d[1],
          hour |-> IF Len(d) >= 3 THEN d[3] ELSE 0]

\* ---------------------------------------------------------------- reconcile
\* df.copy().reset_index(drop=True) with the columns _date and _value added
AddColumns(df) ==
    [k \in 1..Len(df) |->
        [idx |-> k - 1, date |-> df[k].date, value |-> df[k].value,
         _date |-> to_datetime(df[k].date),
         _value |-> normalise_numeric(df[k].value)]]

\* dropna(subset=["_date", "_value"])
dropnaDateOnly(t) == SelectSeq(t, LAMBDA r : r._date.ok)

dropna(t) == SelectSeq(t, LAMBDA r : r._date.ok /\ r._value.ok)

\* t["_matched"] = False
NewMatchedColumn(t) ==
    [k \in 1..Len(t) |->
        [idx |-> t[k].idx, date |-> t[k].date, value |-> t[k].value,
         _date |-> t[k]._date, _value |-> t[k]._value, _matched |-> FALSE]]

\* m_valid[(_matched == False) & (_date == row_f._date) & (_value == row_f._value)]
CandidatesAny(mv, row_f) ==
    SelectSeq(mv, LAMBDA r : r._date = row_f._date /\ r._value = row_f._value)

CandidatesByValue(mv, row_f) ==
    SelectSeq(mv, LAMBDA r : r._matched = FALSE /\ r._value = row_f._value)

Candidates(mv, row_f) ==
    SelectSeq(mv, LAMBDA r : /\ r._matched = FALSE
                             /\ r._date = row_f._date
                             /\ r._value = row_f._value)

\* candidates.index[0]
LastIndex(candidates) == candidates[Len(candidates)].idx

FirstIndex(candidates) == candidates[1].idx

\* t.at[idx, "_matched"] = True
SetMatchedOnly(t, idx) ==
    [k \in 1..Len(t) |-> [t[k] EXCEPT !._matched = (t[k].idx = idx)]]

SetMatched(t, idx) ==
    [k \in 1..Len(t) |->
        IF t[k].idx = idx THEN [t[k] EXCEPT !._matched = TRUE] ELSE t[k]]

\* t[~t["_matched"]]
RECURSIVE Reverse(_)
Reverse(s) == IF s = <<>> THEN <<>> ELSE Append(Reverse(Tail(s)), s[1])

UnmatchedReversed(t) == Reverse(SelectSeq(t, LAMBDA r : ~r._matched))

Unmatched(t) == SelectSeq(t, LAMBDA r : ~r._matched)

\* t["_value"].sum()
RECURSIVE SumUnmatched(_)
SumUnmatched(t) ==
    IF t = <<>> THEN Zero
    ELSE IF t[1]._matched THEN SumUnmatched(Tail(t))
    ELSE Add(t[1]._value, SumUnmatched(Tail(t)))

RECURSIVE SumValues(_)
SumValues(t) ==
    IF t = <<>> THEN Zero ELSE Add(t[1]._value, SumValues(Tail(t)))

\* --------------------------------------------------------------- the inputs
T1010c == <<"1", "0", ",", "1", "0">>
T1010d == <<"1", "0", ".", "1", "0">>
T10099 == <<"1", "0", ".", "0", "9", "9">>
Tabc == <<"a", "b", "c">>

\* a row whose date does not parse and a row whose value does not parse
BadRows ==
    { [date |-> <<>>, value |-> StrValue(T1010c)],
      [date |-> <<1, 2>>, value |-> StrValue(Tabc)] }

\* the rows a table is made of: one day with and without a time of day, and
\* another day with another value
RawRows ==
    { [date |-> <<1, 2>>, value |-> StrValue(T1010c)],
      [date |-> <<1, 2, 13>>, value |-> StrValue(T1010d)],
      [date |-> <<2, 1>>, value |-> StrValue(T10099)] } \cup BadRows

\* rows without times of day: one value on two days, and a value on the first
\* day that differs from it in the third decimal
NearRows ==
    { [date |-> <<1, 2>>, value |-> StrValue(T1010c)],
      [date |-> <<1, 2>>, value |-> StrValue(T10099)],
      [date |-> <<2, 1>>, value |-> StrValue(T1010d)] } \cup BadRows

Tables(R, n) == UNION {[1..k -> R] : k \in 0..n}

Chars == {"0", "1", ".", ",", "R", " ", "-", "a"}

Texts(n) == UNION {[1..k -> Chars] : k \in 0..n}

Examples ==
    { <<"1", ".", "2", "3", "4", ",", "5", "6">>,
      <<"1", "2", "3", "4", ".", "5", "6">>,
      <<"R", "$", " ", "1", "0", ",", "0", "0">>,
      <<"1", ",", "2", "3", "4", ",", "5", "6", "7">>,
      <<"1", ",", "2", "3", "4", ".", "5", "6">>,
      <<" ", "r", "$", "1", ".", "0", "0", "0", ",", "5", " ">>,
      T1010c, T1010d, T10099, Tabc }

Inputs ==
    {NoneValue, NaNValue} \cup {IntValue(n) : n \in {-12, 0, 7, 1234}}
        \cup {StrValue(t) : t \in Texts(MaxLen) \cup Examples}

\* ------------------------------------------------------------------ actions
Start(R) ==
    /\ pc = "start"
    /\ df_fatura \in Tables(R, MaxA)
    /\ df_mobills \in Tables(R, MaxB)
    /\ f = <<>> /\ m = <<>> /\ f_valid = <<>> /\ m_valid = <<>>
    /\ rows = <<>> /\ i = 0
    /\ unmatched_f = <<>> /\ unmatched_m = <<>>
    /\ total_f = Zero /\ total_m = Zero /\ difference = Zero
    /\ value = NoneValue /\ result = None

\* lines 60-69, and the start of the iteration of line 70
Prepare ==
    /\ pc = "start"
    /\ f' = AddColumns(df_fatura)
    /\ m' = AddColumns(df_mobills)
    /\ f_valid' = NewMatchedColumn(dropna(f'))
    /\ m_valid' = NewMatchedColumn(dropna(m'))
    /\ rows' = f_valid'
    /\ i' = 1
    /\ pc' = "loop"
    /\ UNCHANGED <<df_fatura, df_mobills, unmatched_f, unmatched_m,
                   total_f, total_m, difference, value, result>>

\* one iteration of the loop of lines 70-77
Iterate ==
    /\ pc = "loop"
    /\ i <= Len(rows)
    /\ LET row_f == rows[i]
           idx_f == row_f.idx
           candidates == Candidates(m_valid, row_f)
       IN IF ~row_f._matched /\ Len(candidates) > 0
          THEN /\ f_valid' = SetMatched(f_valid, idx_f)
               /\ m_valid' = SetMatched(m_valid, FirstIndex(candidates))
          ELSE UNCHANGED <<f_valid, m_valid>>
    /\ i' = i + 1
    /\ UNCHANGED <<pc, df_fatura, df_mobills, f, m, rows, unmatched_f,
                   unmatched_m, total_f, total_m, difference, value, result>>

\* lines 78-83
Finish ==
    /\ pc = "loop"
    /\ i > Len(rows)
    /\ unmatched_f' = Unmatched(f_valid)
    /\ unmatched_m' = Unmatched(m_valid)
    /\ total_f' = SumValues(f_valid)
    /\ total_m' = SumValues(m_valid)
    /\ difference' = Sub(total_f', total_m')
    /\ pc' = "done"
    /\ UNCHANGED <<df_fatura, df_mobills, f, m, f_valid, m_valid, rows, i,
                   value, result>>

Next == Prepare \/ Iterate \/ Finish

Init == Start(RawRows)

Spec == Init /\ [][Next]_vars

InitNear == Start(NearRows)

SpecNear == InitNear /\ [][Next]_vars

\* a direct call of normalise_numeric
InitNorm ==
    /\ pc = "call"
    /\ value \in Inputs
    /\ result = None
    /\ df_fatura = <<>> /\ df_mobills = <<>>
    /\ f = <<>> /\ m = <<>> /\ f_valid = <<>> /\ m_valid = <<>>
    /\ rows = <<>> /\ i = 0
    /\ unmatched_f = <<>> /\ unmatched_m = <<>>
    /\ total_f = Zero /\ total_m = Zero /\ difference = Zero

Call ==
    /\ pc = "call"
    /\ result' = normalise_numeric(value)
    /\ pc' = "return"
    /\ UNCHANGED <<df_fatura, df_mobills, f, m, f_valid, m_valid, rows, i,
                   unmatched_f, unmatched_m, total_f, total_m, difference,
                   value>>

NextNorm == Call

SpecNorm == InitNorm /\ [][NextNorm]_vars

\* ================================================================== claims
MatchedIdx(t) == {t[k].idx : k \in {j \in 1..Len(t) : t[j]._matched}}

AllIdx(t) == {t[k].idx : k \in 1..Len(t)}

MinOf(S) == CHOOSE x \in S : \A y \in S : x <= y

Min2(a, b) == IF a <= b THEN a ELSE b

\* Python's round(x, 2) on the decimal: half to even
Round2(x) ==
    IF x.exp <= 2 THEN x
    ELSE LET d == Pow10(x.exp - 2)
             q == x.mant \div d
             r == x.mant % d
         IN Canon(IF 2 * r < d THEN q
                  ELSE IF 2 * r > d THEN q + 1
                  ELSE IF q % 2 = 0 THEN q ELSE q + 1, 2)

SameDay(d1, d2) == d1.month = d2.month /\ d1.day = d2.day

OnlyPair == pc = "done" /\ Len(f_valid) = 1 /\ Len(m_valid) = 1

BothMatched ==
    /\ f_valid[1]._matched /\ m_valid[1]._matched
    /\ unmatched_f = <<>> /\ unmatched_m = <<>>

\* C1: when the only valid A-record and the only valid B-record have the
\* same parsed date and values that differ but are equal once both are
\* rounded to 2 decimal places, both end matched and both unmatched outputs
\* are empty.
C1_RoundedValuesMatch ==
    (/\ OnlyPair
     /\ f_valid[1]._date = m_valid[1]._date
     /\ f_valid[1]._value # m_valid[1]._value
     /\ Round2(f_valid[1]._value) = Round2(m_valid[1]._value))
        => BothMatched

\* C2: when the only valid A-record and the only valid B-record fall on the
\* same calendar day (whatever their times of day) and have equal values,
\* both end matched and both unmatched outputs are empty.
C2_SameCalendarDayMatch ==
    (/\ OnlyPair
     /\ SameDay(f_valid[1]._date, m_valid[1]._date)
     /\ f_valid[1]._value = m_valid[1]._value)
        => BothMatched

\* the (date, value) keys of the valid records, as reconcile compares them
KeyOf(r) == <<r._date, r._value>>

Keys == {KeyOf(f_valid[k]) : k \in 1..Len(f_valid)}
            \cup {KeyOf(m_valid[k]) : k \in 1..Len(m_valid)}

WithKey(t, key) == {t[k].idx : k \in {j \in 1..Len(t) : KeyOf(t[j]) = key}}

\* the matched records of S are its n first ones in original order
FirstOnes(S, matched, n) ==
    /\ matched \subseteq S
    /\ Cardinality(matched) = n
    /\ \A x \in matched : \A y \in S \ matched : x < y

\* C3: when reconcile finishes, for every (date, value) key with nA valid
\* A-records and nB valid B-records the matched records are the first
\* min(nA, nB) of each side in original order, and the unmatched outputs
\* hold exactly the remaining max(0, nA - nB) and max(0, nB - nA) records.
C3_FirstMinMatched ==
    pc = "done" =>
        \A key \in Keys :
            LET IA == WithKey(f_valid, key)
                IB == WithKey(m_valid, key)
                n == Min2(Cardinality(IA), Cardinality(IB))
            IN /\ FirstOnes(IA, IA \cap MatchedIdx(f_valid), n)
               /\ FirstOnes(IB, IB \cap MatchedIdx(m_valid), n)
               /\ WithKey(unmatched_f, key) = IA \ MatchedIdx(f_valid)
               /\ WithKey(unmatched_m, key) = IB \ MatchedIdx(m_valid)
               /\ Cardinality(WithKey(unmatched_f, key))
                      = Max(0, Cardinality(IA) - Cardinality(IB))
               /\ Cardinality(WithKey(unmatched_m, key))
                      = Max(0, Cardinality(IB) - Cardinality(IA))

C3_Witness ==
    /\ pc = "done"
    /\ Len(f_valid) = 3 /\ Len(m_valid) = 2
    /\ \A k \in 1..3 : KeyOf(f_valid[k]) = KeyOf(m_valid[1])
    /\ KeyOf(m_valid[2]) = KeyOf(m_valid[1])
    /\ Len(unmatched_f) = 1 /\ unmatched_f[1].idx = f_valid[3].idx
    /\ unmatched_m = <<>>

\* C4: every step of the matching loop turns the matched flag true on no
\* record at all, or on exactly one A-record and exactly one B-record that
\* were both unmatched before it; the numbers of matched A-records and of
\* matched B-records are always equal.
C4_StepPairs ==
    LET newA == MatchedIdx(f_valid') \ MatchedIdx(f_valid)
        newB == MatchedIdx(m_valid') \ MatchedIdx(m_valid)
    IN \/ newA = {} /\ newB = {}
       \/ Cardinality(newA) = 1 /\ Cardinality(newB) = 1

C4_OneMatchEach ==
    /\ [](Cardinality(MatchedIdx(f_valid)) = Cardinality(MatchedIdx(m_valid)))
    /\ [][C4_StepPairs]_vars

C4_Witness ==
    /\ pc = "loop"
    /\ Cardinality(MatchedIdx(f_valid)) = 2
    /\ Cardinality(MatchedIdx(m_valid)) = 2
    /\ i <= Len(rows)

\* validity of a raw row, from the raw fields
RawValid(row) == to_datetime(row.date).ok /\ normalise_numeric(row.value).ok

RemoveAt(s, k) == SubSeq(s, 1, k - 1) \o SubSeq(s, k + 1, Len(s))

RECURSIVE RawTotal(_)
RawTotal(df) ==
    IF df = <<>> THEN Zero
    ELSE IF RawValid(df[1])
         THEN Add(normalise_numeric(df[1].value), RawTotal(Tail(df)))
         ELSE RawTotal(Tail(df))

Excluded(df, valid, unmatched, total) ==
    \A k \in 1..Len(df) :
        ~RawValid(df[k]) =>
            /\ pc # "start" => (k - 1) \notin AllIdx(valid)
            /\ (k - 1) \notin MatchedIdx(valid)
            /\ (k - 1) \notin AllIdx(unmatched)
            /\ pc = "done" => total = RawTotal(RemoveAt(df, k))

\* C5: a record whose date or whose value does not parse is never among the
\* match candidates, is never marked matched, is not in the unmatched
\* output of its side, and the total of its side is the total of the input
\* without it.
C5_InvalidExcluded ==
    /\ Excluded(df_fatura, f_valid, unmatched_f, total_f)
    /\ Excluded(df_mobills, m_valid, unmatched_m, total_m)

C5_Witness ==
    /\ pc = "done"
    /\ \E k \in 1..Len(df_fatura) : ~to_datetime(df_fatura[k].date).ok
    /\ \E k \in 1..Len(df_mobills) : ~normalise_numeric(df_mobills[k].value).ok
    /\ Len(f_valid) >= 1 /\ Len(m_valid) >= 1
    /\ MatchedIdx(f_valid) # {}

\* C6: totalA is the sum of the parsed values of all valid A-records,
\* totalB that of all valid B-records, matched or not, and difference is
\* totalA - totalB; one valid record on each side with equal values on
\* different days gives no match and difference 0.
C6_TotalsIgnoreMatches ==
    pc = "done" =>
        /\ total_f = RawTotal(df_fatura)
        /\ total_m = RawTotal(df_mobills)
        /\ difference = Sub(total_f, total_m)
        /\ (/\ Len(f_valid) = 1 /\ Len(m_valid) = 1
            /\ f_valid[1]._value = m_valid[1]._value
            /\ ~SameDay(f_valid[1]._date, m_valid[1]._date))
               => /\ Len(unmatched_f) = 1 /\ Len(unmatched_m) = 1
                  /\ difference = Zero

C6_Witness ==
    /\ pc = "done"
    /\ MatchedIdx(f_valid) # {}
    /\ unmatched_f # <<>>
    /\ total_f # Zero
    /\ difference # Zero

C6_WitnessNoMatch ==
    /\ pc = "done"
    /\ Len(f_valid) = 1 /\ Len(m_valid) = 1
    /\ f_valid[1]._value = m_valid[1]._value
    /\ ~SameDay(f_valid[1]._date, m_valid[1]._date)
    /\ difference = Zero

\* the comma-count rule as a decision on the cleaned text
RuleText(t) ==
    CASE count(t, ",") = 1 ->
             [k \in 1..Len(SelectSeq(t, LAMBDA c : c # ".")) |->
                 IF SelectSeq(t, LAMBDA c : c # ".")[k] = ","
                 THEN "." ELSE SelectSeq(t, LAMBDA c : c # ".")[k]]
      [] count(t, ",") > 1 -> SelectSeq(t, LAMBDA c : c # ",")
      [] OTHER -> t

Cleaned(v) == re_sub(strip(str(v)))

Num(mant, exp) == [ok |-> TRUE, mant |-> mant, exp |-> exp]

\* C7: the result of normalise_numeric is the parse of the cleaned text
\* after the comma-count rule (one comma: dots removed, comma to dot; more
\* than one: commas removed; none: unchanged), None for None and NaN and for
\* a text that does not parse; "1.234,56" gives 1234.56, "1234.56" gives
\* 1234.56, "R$ 10,00" gives 10, "1,234,567" gives 1234567, "abc" gives None.
C7_CommaCountRule ==
    pc = "return" =>
        /\ value.kind \in {"none", "nan"} => result = None
        /\ value.kind \in {"str", "int"} => result = float(RuleText(Cleaned(value)))
        /\ value = StrValue(<<"1", ".", "2", "3", "4", ",", "5", "6">>)
               => result = Num(123456, 2)
        /\ value = StrValue(<<"1", "2", "3", "4", ".", "5", "6">>)
               => result = Num(123456, 2)
        /\ value = StrValue(<<"R", "$", " ", "1", "0", ",", "0", "0">>)
               => result = Num(10, 0)
        /\ value = StrValue(<<"1", ",", "2", "3", "4", ",", "5", "6", "7">>)
               => result = Num(1234567, 0)
        /\ value = StrValue(Tabc) => result = None

C7_Witness ==
    /\ pc = "return"
    /\ value = StrValue(<<"1", ".", "2", "3", "4", ",", "5", "6">>)
    /\ result = Num(123456, 2)

\* C8: the unmatched outputs keep the order of the input: of two records of
\* one output, the one that comes first is the one that comes first in the
\* input table.
Ordered(t) ==
    \A p, q \in 1..Len(t) : p < q <=> t[p].idx < t[q].idx

C8_OrderPreserved ==
    pc = "done" => Ordered(unmatched_f) /\ Ordered(unmatched_m)

C8_Witness ==
    /\ pc = "done"
    /\ Len(f_valid) = 3
    /\ MatchedIdx(f_valid) = {f_valid[2].idx}
    /\ Len(unmatched_f) = 2
    /\ unmatched_f[1].idx < unmatched_f[2].idx

\* the valid A-records in original order, from the raw table
ValidIdxA == {k - 1 : k \in {j \in 1..Len(df_fatura) : RawValid(df_fatura[j])}}

Eligible(a) ==
    {m_valid[k].idx : k \in {j \in 1..Len(m_valid) :
        /\ ~m_valid[j]._matched
        /\ m_valid[j]._date = a._date
        /\ m_valid[j]._value = a._value}}

C9_Step ==
    (pc = "loop" /\ pc' = "loop") =>
        /\ Cardinality({x \in ValidIdxA : x < f_valid[i].idx}) = i - 1
        /\ f_valid[i].idx \in ValidIdxA
        /\ ~f_valid[i]._matched
        /\ IF Eligible(f_valid[i]) = {}
           THEN /\ MatchedIdx(m_valid') = MatchedIdx(m_valid)
                /\ MatchedIdx(f_valid') = MatchedIdx(f_valid)
           ELSE /\ MatchedIdx(m_valid')
                      = MatchedIdx(m_valid) \cup {MinOf(Eligible(f_valid[i]))}
                /\ MatchedIdx(f_valid')
                      = MatchedIdx(f_valid) \cup {f_valid[i].idx}

\* C9: the loop takes the valid A-records in original order; the step for
\* record a marks a and, among the valid B-records still unmatched whose
\* parsed date and value equal a's, the one that comes first in the input;
\* when there is none the step changes no matched flag.
C9_GreedyFirstAvailable == [][C9_Step]_vars

C9_Witness ==
    /\ pc = "loop"
    /\ i = 3
    /\ MatchedIdx(f_valid) = {f_valid[2].idx}
    /\ Len(m_valid) = 2
    /\ MatchedIdx(m_valid) = {m_valid[1].idx}
    /\ KeyOf(m_valid[2]) = KeyOf(m_valid[1])

C10_Step ==
    /\ MatchedIdx(f_valid) \subseteq MatchedIdx(f_valid')
    /\ MatchedIdx(m_valid) \subseteq MatchedIdx(m_valid')

\* C10: a matched flag that is true stays true in every later step, and the
\* unmatched outputs hold no record that was ever marked matched.
C10_MatchedMonotonic ==
    /\ [][C10_Step]_vars
    /\ [](pc = "done" =>
            /\ AllIdx(unmatched_f) = AllIdx(f_valid) \ MatchedIdx(f_valid)
            /\ AllIdx(unmatched_m) = AllIdx(m_valid) \ MatchedIdx(m_valid))

C10_Witness ==
    /\ pc = "done"
    /\ Cardinality(MatchedIdx(f_valid)) = 2
    /\ unmatched_f # <<>>

====
